---- MODULE Spec2Model ----
(***************************************************************************)
(* A model of chemef: the formula parser (src/src/chemical.rs), the        *)
(* integer equation solver (src/src/reaction.rs), the equation reader      *)
(* parse_equation and the message handler update (src/src/lib.rs).         *)
(*                                                                         *)
(* The parser is modelled one character at a time: `input` is the part of  *)
(* the string that `input.chars()` has yielded so far, and the end of the  *)
(* string is the step EndOfInput.  A run of the model is therefore one     *)
(* call of parse_chemical on the string `input` holds when the call        *)
(* returns (on an early `return None` the unread rest of the string has no *)
(* influence).                                                             *)
(***************************************************************************)
EXTENDS Integers, Sequences, FiniteSets, TLC

\* ------------------------------------------------------------------ bounds

\* Longest formula string fed to parse_chemical.
MaxLen == 7

\* The width of usize in the narrow build of the parser (NarrowParserSpec).
NarrowBits == 4

\* Longest equation string fed to parse_equation.
MaxEquationLen == 4

\* The width of i64 in the narrow build of lcm (LcmSpec).
NarrowI64Bits == 6

\* The width of the `usize` of chemical.rs on a 64-bit target.
UsizeBits == 64

\* The width of the `i64` of reaction.rs.
I64Bits == 64

\* ------------------------------------------------------- parser: characters

Upper == {"A", "B"}
Lower == {"a"}
NonZeroDigit == {"1", "2"}
Digit == {"0"} \cup NonZeroDigit
\* "." stands for every character outside [A-Za-z0-9()].
Alphabet == Upper \cup Lower \cup Digit \cup {"(", ")", "."}

\* c as usize - '0' as usize
DigitValue(c) == CASE c = "0" -> 0 [] c = "1" -> 1 [] c = "2" -> 2

VARIABLES
    input,            \* the characters read so far (a sequence of characters)
    state,            \* parse_chemical's State
    name,             \* the name buffer (a sequence of characters)
    count,
    composite_count,
    parts,            \* the current accumulator: element name -> count
    parts_stack,      \* the saved accumulators, innermost last
    ret               \* [tag |-> "running"] until parse_chemical returns

parserVars == <<input, state, name, count, composite_count, parts, parts_stack, ret>>

VARIABLES
    usize_bits,       \* the build: how many bits a usize has on the target,
    i64_bits,         \*   how many bits the solver's integers have,
    overflow_checks   \*   and whether an arithmetic overflow panics or wraps

buildVars == <<usize_bits, i64_bits, overflow_checks>>

VARIABLES
    reagents,         \* calculate_coefficients' arguments: sequences of
    products,         \*   Chemical.parts maps (element name -> count)
    matrix,           \* ReactionMatrix.matrix, row-major
    columns,          \* ReactionMatrix.columns
    row,              \* integer_gauss' loop variable `row`
    other_row,        \* the elimination loop's `other_row`
    solutions,
    pc,               \* where calculate_coefficients stands
    result            \* what it returned (Running until then)

solverVars == <<reagents, products, matrix, columns, row, other_row, solutions, pc, result>>

VARIABLES
    equation,         \* parse_equation's argument (a sequence of characters)
    eq_side,          \* where parse_equation stands
    eq_index,         \* the '+'-separated piece the running loop is at
    eq_reagents,      \* the vectors `reagents` and `products`
    eq_products,
    eq_result         \* what parse_equation returned (Running until then)

equationVars == <<equation, eq_side, eq_index, eq_reagents, eq_products, eq_result>>

VARIABLES
    lcm_a,            \* lcm's arguments
    lcm_b,
    gcd_a,            \* the locals a, b and shift of lcm's inner fn gcd
    gcd_b,
    gcd_shift,
    gcd_result,       \* what gcd returned (0 until then)
    lcm_pc,           \* where lcm stands
    lcm_result        \* what lcm returned (Running until then)

lcmVars == <<lcm_a, lcm_b, gcd_a, gcd_b, gcd_shift, gcd_result, lcm_pc, lcm_result>>

VARIABLES
    msg,              \* the message of the latest call of update
    model_input,      \* Model.input
    model_result,     \* Model.result
    model_error,      \* Model.error
    model_history,    \* Model.history
    orders,           \* what that call asked of its `order`
    update_ret        \* how that call ended: "returned" or "panic" ("none"
                      \* before the first call)

updateVars ==
    <<msg, model_input, model_result, model_error, model_history, orders, update_ret>>

vars == <<buildVars, parserVars, solverVars, equationVars, lcmVars, updateVars>>

\* HashMap::new()
EmptyMap == << >>

Running == [tag |-> "running"]
RetNone == [tag |-> "None"]
\* the thread panics: an `expect` on an empty parts_stack, or an arithmetic
\* overflow in a build with overflow checks
RetPanic == [tag |-> "panic"]
\* A Chemical whose display is left empty instead of holding the input.
RetSome_EmptyDisplay(p, text) == [tag |-> "Some", parts |-> p, display |-> << >>]
RetSome(p, text) == [tag |-> "Some", parts |-> p, display |-> text]

\* create_or_add: add to the entry of key, or insert it.
create_or_add(map, key, value) ==
    IF key \in DOMAIN map
    THEN [map EXCEPT ![key] = @ + value]
    ELSE map @@ (key :> value)

\* The loop of the arm (State::DeepEnd, _): every entry of the closed group is
\* added to the saved accumulator.
MergeParts(saved_parts, cur) ==
    [n \in DOMAIN saved_parts \cup DOMAIN cur |->
        (IF n \in DOMAIN saved_parts THEN saved_parts[n] ELSE 0)
        + (IF n \in DOMAIN cur THEN cur[n] ELSE 0)]

\* The loop of the arm (State::CompositeDigit, _): every entry of the closed
\* group is multiplied by the group's multiplier, then added.
MergePartsScaled(saved_parts, cur, mult) ==
    [n \in DOMAIN saved_parts \cup DOMAIN cur |->
        (IF n \in DOMAIN saved_parts THEN saved_parts[n] ELSE 0)
        + (IF n \in DOMAIN cur THEN cur[n] * mult ELSE 0)]

Top(stack) == stack[Len(stack)]
\* A pop that leaves the stack as it is.
Pop_Keep(stack) == stack
Pop(stack) == SubSeq(stack, 1, Len(stack) - 1)

\* ------------------------------------------------ parser: usize arithmetic
\*
\* Every number the parser computes is a sum or a product of usize values.
\* The operators above compute it in the integers; the result is what the
\* machine computes as long as it fits a usize.  When it does not, a build
\* with overflow checks (cargo's dev profile) panics at the operation, and a
\* build without them (the release profile) keeps the result modulo
\* 2^usize_bits.  As all operands are non-negative, some operation of an arm
\* overflows exactly when one of the arm's integer results does not fit, and
\* wrapping every operation gives the integer result modulo 2^usize_bits.

RECURSIVE TwoTo(_)
TwoTo(n) == IF n = 0 THEN 1 ELSE 2 * TwoTo(n - 1)

\* The numbers of the model stay below 2^31, so a usize of 31 bits or more
\* holds every one of them.
Fits(x) == usize_bits >= 31 \/ x < TwoTo(usize_bits)
Wrap(x) == IF usize_bits >= 31 THEN x ELSE x % TwoTo(usize_bits)

FitsMap(map) == \A n \in DOMAIN map : Fits(map[n])
WrapMap(map) == [n \in DOMAIN map |-> Wrap(map[n])]

\* The locals of parse_chemical, as one record.
Locals ==
    [state |-> state, name |-> name, count |-> count,
     composite_count |-> composite_count, parts |-> parts,
     parts_stack |-> parts_stack, ret |-> ret]

\* The locals as lines 21-26 initialise them.
Start ==
    [state |-> "None", name |-> << >>, count |-> 0, composite_count |-> 0,
     parts |-> EmptyMap, parts_stack |-> << >>, ret |-> Running]

\* The locals `new` an arm computed from `old`, as the machine holds them.
Checked(old, new) ==
    IF /\ Fits(new.count) /\ Fits(new.composite_count) /\ FitsMap(new.parts)
       /\ \A i \in 1..Len(new.parts_stack) : FitsMap(new.parts_stack[i])
    THEN new
    ELSE IF overflow_checks
         THEN [old EXCEPT !.ret = RetPanic]
         ELSE [new EXCEPT !.count = Wrap(@), !.composite_count = Wrap(@),
                          !.parts = WrapMap(@),
                          !.parts_stack = [i \in 1..Len(@) |-> WrapMap(@[i])]]

\* No call of parse_chemical is under way.
ParserIdle ==
    /\ input = << >> /\ state = "None" /\ name = << >>
    /\ count = 0 /\ composite_count = 0
    /\ parts = << >> /\ parts_stack = << >>
    /\ ret = [tag |-> "idle"]

\* No call of calculate_coefficients is under way.
SolverIdle ==
    /\ reagents = << >> /\ products = << >> /\ matrix = << >> /\ columns = 0
    /\ row = 0 /\ other_row = 0 /\ solutions = << >>
    /\ pc = "idle" /\ result = [tag |-> "idle"]

\* No call of parse_equation is under way.
EquationIdle ==
    /\ equation = << >> /\ eq_side = "idle" /\ eq_index = 0
    /\ eq_reagents = << >> /\ eq_products = << >>
    /\ eq_result = [tag |-> "idle"]

\* No call of lcm is under way.
LcmIdle ==
    /\ lcm_a = 0 /\ lcm_b = 0 /\ gcd_a = 0 /\ gcd_b = 0 /\ gcd_shift = 0
    /\ gcd_result = 0 /\ lcm_pc = "idle" /\ lcm_result = [tag |-> "idle"]

\* update has not been called: the Model is Model::default().
UpdateIdle ==
    /\ msg = [tag |-> "none", arg |-> << >>]
    /\ model_input = << >>
    /\ model_result = [tag |-> "None"]
    /\ model_error = [tag |-> "None"]
    /\ model_history = << >>
    /\ orders = [skip |-> FALSE, send_msg |-> << >>, after_next_render |-> << >>]
    /\ update_ret = "none"

\* The build the repository's tests run: integers of 64 bits, which nothing
\* within the bounds of this model overflows.
Build64 ==
    /\ usize_bits = UsizeBits
    /\ i64_bits = I64Bits
    /\ overflow_checks = TRUE

\* A call of parse_chemical starts.
Called ==
    /\ SolverIdle /\ EquationIdle /\ LcmIdle /\ UpdateIdle
    /\ input = << >>
    /\ state = Start.state
    /\ name = Start.name
    /\ count = Start.count
    /\ composite_count = Start.composite_count
    /\ parts = Start.parts
    /\ parts_stack = Start.parts_stack
    /\ ret = Start.ret

ParserInit ==
    /\ Called
    /\ Build64

\* The same call on a usize of NarrowBits bits, where the strings up to
\* MaxLen reach the overflows that a 64-bit usize meets on counts of twenty
\* digits; either build profile.
NarrowParserInit ==
    /\ Called
    /\ usize_bits = NarrowBits
    /\ i64_bits = I64Bits
    /\ overflow_checks \in BOOLEAN

\* parts_stack.pop().expect(..) on an empty stack
PopPanics(st) == [st EXCEPT !.ret = RetPanic]

\* The `match c` that ends the arms (State::DeepEnd, _) and
\* (State::CompositeDigit, _), entered with the stack popped and the closed
\* group merged into `merged`.
Resume(st, c, merged) ==
    LET stack == Pop(st.parts_stack)
    IN  CASE c \in Upper ->
                [st EXCEPT !.parts = merged, !.parts_stack = stack,
                           !.name = Append(@, c),
                           !.state = IF stack = << >> THEN "ShallowLetter"
                                                      ELSE "DeepLetter"]
          [] c = ")" ->
                [st EXCEPT !.parts = merged, !.parts_stack = stack,
                           !.state = "DeepEnd"]
          [] c = "(" ->
                [st EXCEPT !.parts = EmptyMap,
                           !.parts_stack = Append(stack, merged),
                           !.state = "DeepNone"]
          [] OTHER ->
                [st EXCEPT !.parts = merged, !.parts_stack = stack,
                           !.ret = RetNone]

\* The arm of `match (state, c)` that takes c, computed in the integers.
Arm(st, c) ==
    LET s == st.state
    IN  CASE s = "None" /\ c \in Upper ->
                [st EXCEPT !.name = Append(@, c), !.state = "ShallowLetter"]
          [] s = "None" /\ c = "(" ->
                [st EXCEPT !.parts_stack = Append(@, st.parts),
                           !.parts = EmptyMap, !.state = "DeepNone"]
          [] s = "ShallowLetter" /\ c \in Upper ->
                [st EXCEPT !.parts = create_or_add(@, st.name, 1),
                           !.name = <<c>>, !.state = "ShallowLetter"]
          [] s = "ShallowLetter" /\ c \in Lower ->
                [st EXCEPT !.name = Append(@, c), !.state = "ShallowLetter"]
          [] s = "ShallowLetter" /\ c \in NonZeroDigit ->
                [st EXCEPT !.count = DigitValue(c), !.state = "ShallowDigit"]
          [] s \in {"ShallowLetter", "DeepLetter"} /\ c = "(" ->
                [st EXCEPT !.parts_stack =
                               Append(@, create_or_add(st.parts, st.name, 1)),
                           !.name = << >>, !.parts = EmptyMap,
                           !.state = "DeepNone"]
          [] s = "ShallowDigit" /\ c \in Upper ->
                [st EXCEPT !.parts = create_or_add(@, st.name, st.count),
                           !.name = <<c>>, !.state = "ShallowLetter"]
          [] s = "ShallowDigit" /\ c \in Digit ->
                [st EXCEPT !.count = @ * 10 + DigitValue(c),
                           !.state = "ShallowDigit"]
          [] s \in {"ShallowDigit", "DeepDigit"} /\ c = "(" ->
                [st EXCEPT !.parts_stack =
                               Append(@, create_or_add(st.parts, st.name, st.count)),
                           !.name = << >>, !.parts = EmptyMap,
                           !.state = "DeepNone"]
          [] s = "DeepNone" /\ c \in Upper ->
                [st EXCEPT !.name = Append(@, c), !.state = "DeepLetter"]
          [] s = "DeepLetter" /\ c \in Upper ->
                [st EXCEPT !.parts = create_or_add(@, st.name, 1),
                           !.name = <<c>>, !.state = "DeepLetter"]
          [] s = "DeepLetter" /\ c \in Lower ->
                [st EXCEPT !.name = Append(@, c), !.state = "DeepLetter"]
          [] s = "DeepLetter" /\ c \in NonZeroDigit ->
                [st EXCEPT !.count = DigitValue(c), !.state = "DeepDigit"]
          [] s = "DeepLetter" /\ c = ")" ->
                [st EXCEPT !.parts = create_or_add(@, st.name, 1),
                           !.name = << >>, !.state = "DeepEnd"]
          [] s = "DeepDigit" /\ c \in Upper ->
                [st EXCEPT !.parts = create_or_add(@, st.name, st.count),
                           !.name = <<c>>, !.state = "DeepLetter"]
          [] s = "DeepDigit" /\ c \in Digit ->
                [st EXCEPT !.count = @ * 10 + DigitValue(c),
                           !.state = "DeepDigit"]
          [] s = "DeepDigit" /\ c = ")" ->
                [st EXCEPT !.parts = create_or_add(@, st.name, st.count),
                           !.name = << >>, !.state = "DeepEnd"]
          [] s = "DeepEnd" /\ c \in NonZeroDigit ->
                [st EXCEPT !.composite_count = DigitValue(c),
                           !.state = "CompositeDigit"]
          [] s = "DeepEnd" /\ c \notin NonZeroDigit ->
                IF st.parts_stack = << >>
                THEN PopPanics(st)
                ELSE Resume(st, c, MergeParts(Top(st.parts_stack), st.parts))
          [] s = "CompositeDigit" /\ c \in Digit ->
                [st EXCEPT !.composite_count = @ * 10 + DigitValue(c),
                           !.state = "CompositeDigit"]
          [] s = "CompositeDigit" /\ c \notin Digit ->
                IF st.parts_stack = << >>
                THEN PopPanics(st)
                ELSE Resume(st, c, MergePartsScaled(Top(st.parts_stack), st.parts,
                                                    st.composite_count))
          [] OTHER -> [st EXCEPT !.ret = RetNone]

\* One turn of `for c in input.chars()`: the locals after the arm for c.
Step(st, c) == Checked(st, Arm(st, c))

\* `for c in input.chars()` yields c and the arm for it runs.
Reads(c) ==
    /\ ret = Running
    /\ Len(input) < MaxLen
    /\ input' = Append(input, c)
    /\ LET new == Step(Locals, c)
       IN  /\ state' = new.state
           /\ name' = new.name
           /\ count' = new.count
           /\ composite_count' = new.composite_count
           /\ parts' = new.parts
           /\ parts_stack' = new.parts_stack
           /\ ret' = new.ret
    /\ UNCHANGED <<buildVars, solverVars, equationVars, lcmVars, updateVars>>

\* (State::None, 'A'..='Z')
NoneUpper == \E c \in Upper : state = "None" /\ Reads(c)

\* (State::None, '(')
NoneOpen == state = "None" /\ Reads("(")

\* (State::ShallowLetter, 'A'..='Z')
ShallowLetterUpper == \E c \in Upper : state = "ShallowLetter" /\ Reads(c)

\* (State::ShallowLetter, 'a'..='z')
ShallowLetterLower == \E c \in Lower : state = "ShallowLetter" /\ Reads(c)

\* (State::ShallowLetter, '1'..='9')
ShallowLetterDigit == \E c \in NonZeroDigit : state = "ShallowLetter" /\ Reads(c)

\* (State::ShallowLetter, '(') | (State::DeepLetter, '(')
LetterOpen == state \in {"ShallowLetter", "DeepLetter"} /\ Reads("(")

\* (State::ShallowDigit, 'A'..='Z')
ShallowDigitUpper == \E c \in Upper : state = "ShallowDigit" /\ Reads(c)

\* (State::ShallowDigit, '0'..='9')
ShallowDigitDigit == \E c \in Digit : state = "ShallowDigit" /\ Reads(c)

\* (State::ShallowDigit, '(') | (State::DeepDigit, '(')
DigitOpen == state \in {"ShallowDigit", "DeepDigit"} /\ Reads("(")

\* (State::DeepNone, 'A'..='Z')
DeepNoneUpper == \E c \in Upper : state = "DeepNone" /\ Reads(c)

\* (State::DeepLetter, 'A'..='Z')
DeepLetterUpper == \E c \in Upper : state = "DeepLetter" /\ Reads(c)

\* (State::DeepLetter, 'a'..='z')
DeepLetterLower == \E c \in Lower : state = "DeepLetter" /\ Reads(c)

\* (State::DeepLetter, '1'..='9')
DeepLetterDigit == \E c \in NonZeroDigit : state = "DeepLetter" /\ Reads(c)

\* (State::DeepLetter, ')')
DeepLetterClose == state = "DeepLetter" /\ Reads(")")

\* (State::DeepDigit, 'A'..='Z')
DeepDigitUpper == \E c \in Upper : state = "DeepDigit" /\ Reads(c)

\* (State::DeepDigit, '0'..='9')
DeepDigitDigit == \E c \in Digit : state = "DeepDigit" /\ Reads(c)

\* (State::DeepDigit, ')')
DeepDigitClose == state = "DeepDigit" /\ Reads(")")

\* (State::DeepEnd, '1'..='9')
DeepEndDigit == \E c \in NonZeroDigit : state = "DeepEnd" /\ Reads(c)

\* (State::DeepEnd, _)
DeepEndOther == \E c \in Alphabet \ NonZeroDigit : state = "DeepEnd" /\ Reads(c)

\* (State::CompositeDigit, '0'..='9')
CompositeDigitDigit == \E c \in Digit : state = "CompositeDigit" /\ Reads(c)

\* (State::CompositeDigit, _)
CompositeDigitOther == \E c \in Alphabet \ Digit : state = "CompositeDigit" /\ Reads(c)

\* The characters some arm above the final `_ => return None` takes in state s.
Handled(s) ==
    CASE s = "None" -> Upper \cup {"("}
      [] s = "ShallowLetter" -> Upper \cup Lower \cup NonZeroDigit \cup {"("}
      [] s = "ShallowDigit" -> Upper \cup Digit \cup {"("}
      [] s = "DeepNone" -> Upper
      [] s = "DeepLetter" -> Upper \cup Lower \cup NonZeroDigit \cup {"(", ")"}
      [] s = "DeepDigit" -> Upper \cup Digit \cup {"(", ")"}
      [] s = "DeepEnd" -> Alphabet
      [] s = "CompositeDigit" -> Alphabet

\* _ => return None
Fallthrough == \E c \in Alphabet \ Handled(state) : Reads(c)

\* The value of the `match state` after the loop and of the expression that
\* follows it (lines 194-227).
Finish(st, text) ==
    LET s == st.state
        stack == st.parts_stack
        r == CASE s = "ShallowLetter" ->
                    RetSome(create_or_add(st.parts, st.name, 1), text)
               [] s = "ShallowDigit" ->
                    RetSome(create_or_add(st.parts, st.name, st.count), text)
               [] s = "DeepEnd" ->
                    IF stack = << >> THEN RetPanic
                    ELSE RetSome(MergeParts(Top(stack), st.parts), text)
               [] s = "CompositeDigit" ->
                    IF stack = << >> THEN RetPanic
                    ELSE RetSome(MergePartsScaled(Top(stack), st.parts,
                                                  st.composite_count), text)
               [] s = "None" -> RetSome(st.parts, text)
               [] s \in {"DeepNone", "DeepLetter", "DeepDigit"} -> RetNone
    IN  IF r.tag # "Some" \/ FitsMap(r.parts) THEN r
        ELSE IF overflow_checks THEN RetPanic
             ELSE RetSome(WrapMap(r.parts), text)

\* The iterator is exhausted: the loop ends and the final match returns.
EndOfInput ==
    /\ ret = Running
    /\ ret' = Finish(Locals, input)
    /\ UNCHANGED <<input, state, name, count, composite_count, parts, parts_stack>>
    /\ UNCHANGED <<buildVars, solverVars, equationVars, lcmVars, updateVars>>

ParserNext ==
    \/ NoneUpper \/ NoneOpen
    \/ ShallowLetterUpper \/ ShallowLetterLower \/ ShallowLetterDigit \/ LetterOpen
    \/ ShallowDigitUpper \/ ShallowDigitDigit \/ DigitOpen
    \/ DeepNoneUpper
    \/ DeepLetterUpper \/ DeepLetterLower \/ DeepLetterDigit \/ DeepLetterClose
    \/ DeepDigitUpper \/ DeepDigitDigit \/ DeepDigitClose
    \/ DeepEndDigit \/ DeepEndOther
    \/ CompositeDigitDigit \/ CompositeDigitOther
    \/ Fallthrough
    \/ EndOfInput

ParserSpec == ParserInit /\ [][ParserNext]_vars

NarrowParserSpec == NarrowParserInit /\ [][ParserNext]_vars

\* parse_chemical as a function of the whole string.
RECURSIVE Scan(_, _, _)
Scan(st, s, i) ==
    IF st.ret # Running \/ i > Len(s) THEN st
    ELSE Scan(Step(st, s[i]), s, i + 1)

parse_chemical(s) ==
    LET st == Scan(Start, s, 1)
    IN  IF st.ret # Running THEN st.ret ELSE Finish(st, s)

\* ------------------------------------------------------------ the solver

\* The element symbols of the formulas handed to the solver.
Elements == {<<"A">>, <<"B">>}

\* The largest atom count of an element in one formula.
MaxCount == 2

\* The largest number of formulas in one equation, reagents and products
\* together.
MaxChemicals == 3

\* The Chemical.parts a formula can have: some of the elements, each with a
\* count of at least 1.
Chemicals == UNION {[D -> 1..MaxCount] : D \in SUBSET Elements}

Ok(v) == [tag |-> "Ok", v |-> v]
Err(e) == [tag |-> "Err", error |-> e]
\* an assertion of lcm failed: the thread panics
Panic == [tag |-> "panic"]

\* parts.get(element).cloned().unwrap_or(0)
Get(chemical, element) == IF element \in DOMAIN chemical THEN chemical[element] ELSE 0

\* get_elements_involved: the keys of the reagents.
ElementList(rs) == UNION {DOMAIN rs[i] : i \in 1..Len(rs)}

\* Mutant of Unbalanced: the element sets of the two sides are required to be
\* equal.
Unbalanced_Symmetric(rs, ps) ==
    UNION {DOMAIN rs[i] : i \in 1..Len(rs)} # UNION {DOMAIN ps[j] : j \in 1..Len(ps)}

\* get_elements_involved: some product has a key that no reagent has.
Unbalanced(rs, ps) ==
    \E j \in 1..Len(ps) : \E e \in DOMAIN ps[j] : e \notin ElementList(rs)

\* The orders in which iterating the HashSet can yield the set S.
Orders(S) ==
    {o \in [1..Cardinality(S) -> S] : \A i, j \in 1..Cardinality(S) : o[i] = o[j] => i = j}

\* create_linear_equation's matrix with the rows in the order `order`:
\* +count in a reagent's column, -count in a product's.
LinearEquation(rs, ps, order) ==
    LET cols == Len(rs) + Len(ps) IN
    [i \in 1..(Len(order) * cols) |->
        LET element == order[((i - 1) \div cols) + 1]
            c == (i - 1) % cols
        IN  IF c < Len(rs) THEN Get(rs[c + 1], element)
            ELSE 0 - Get(ps[c - Len(rs) + 1], element)]

\* vec[r * columns + c]
At(vec, cols, r, c) == vec[r * cols + c + 1]

Abs(x) == IF x < 0 THEN 0 - x ELSE x

\* i64 division: the quotient truncated towards zero.
Div(a, b) ==
    IF (a < 0) = (b < 0) THEN Abs(a) \div Abs(b) ELSE 0 - (Abs(a) \div Abs(b))

RECURSIVE Pow2(_)
\* 1 << shift
Pow2(shift) == IF shift = 0 THEN 1 ELSE 2 * Pow2(shift - 1)

RECURSIVE StripCommonTwos(_, _, _)
\* while ((a | b) & 1) == 0 { shift += 1; a >>= 1; b >>= 1; }
StripCommonTwos(a, b, shift) ==
    IF a % 2 = 0 /\ b % 2 = 0
    THEN StripCommonTwos(a \div 2, b \div 2, shift + 1)
    ELSE [a |-> a, b |-> b, shift |-> shift]

RECURSIVE StripTwos(_)
\* while a & 1 == 0 { a >>= 1; }
StripTwos(a) == IF a % 2 = 0 THEN StripTwos(a \div 2) ELSE a

RECURSIVE SubtractLoop(_, _)
\* loop { strip b; if a > b { swap } b -= a; if b == 0 { break } }: the
\* value of a when the loop breaks.
SubtractLoop(a, b) ==
    LET b1 == StripTwos(b)
        lo == IF a > b1 THEN b1 ELSE a
        hi == IF a > b1 THEN a ELSE b1
    IN  IF hi - lo = 0 THEN lo ELSE SubtractLoop(lo, hi - lo)

\* lcm's inner fn gcd, for a, b > 0.
gcd(a, b) ==
    IF a = b THEN a
    ELSE LET s == StripCommonTwos(a, b, 0)
         IN  SubtractLoop(StripTwos(s.a), s.b) * Pow2(s.shift)

\* x is an i64.  The numbers of the model stay below 2^31, so an i64 of 31
\* bits or more holds every one of them.
FitsI64(x) ==
    \/ i64_bits >= 31
    \/ (-TwoTo(i64_bits - 1) <= x /\ x <= TwoTo(i64_bits - 1) - 1)

\* What an i64 holds of the integer x without overflow checks: x in two's
\* complement.
WrapI64(x) ==
    IF i64_bits >= 31 THEN x
    ELSE ((x + TwoTo(i64_bits - 1)) % TwoTo(i64_bits)) - TwoTo(i64_bits - 1)

\* lcm's two assertions fail.
LcmPanics(a, b) == ~(a > 0) \/ ~(b > 0)

\* Mutant of lcm: the product is not divided by the gcd.
lcm_NoGcd(a, b) == a * b

\* a * b / gcd(a, b)
lcm(a, b) == Div(WrapI64(a * b), gcd(a, b))

\* swap_row
swap_row(vec, row1, row2, cols) ==
    [i \in 1..Len(vec) |->
        LET r == (i - 1) \div cols
            c == (i - 1) % cols
        IN  IF r = row1 THEN At(vec, cols, row2, c)
            ELSE IF r = row2 THEN At(vec, cols, row1, c)
            ELSE vec[i]]

\* Mutant of PivotSwap: a zero pivot is left in place.
PivotSwap_NoSwap(vec, cols, r) == vec

\* integer_gauss, lines 72-79: a zero pivot is swapped with the first row
\* below that has a non-zero entry in the pivot column, if there is one.
PivotSwap(vec, cols, r) ==
    LET rws == Len(vec) \div cols
        below == {o \in (r + 1)..(rws - 1) : At(vec, cols, o, r) # 0}
    IN  IF At(vec, cols, r, r) = 0 /\ below # {}
        THEN swap_row(vec, r, CHOOSE o \in below : \A x \in below : o <= x, cols)
        ELSE vec

\* cancel_row calls lcm with an operand that fails its assertion.
CancelPanics(vec, row1, row2, cols, first_nonzero) ==
    /\ At(vec, cols, row2, first_nonzero) # 0
    /\ LcmPanics(Abs(At(vec, cols, row1, first_nonzero)),
                 Abs(At(vec, cols, row2, first_nonzero)))

\* A cancel_row that subtracts the rows without scaling them.
cancel_row_Unscaled(vec, row1, row2, cols, first_nonzero) ==
    IF At(vec, cols, row2, first_nonzero) # 0
    THEN [i \in 1..Len(vec) |->
             LET r == (i - 1) \div cols
                 c == (i - 1) % cols
             IN  IF r = row2 /\ c >= first_nonzero
                 THEN At(vec, cols, row1, c) - At(vec, cols, row2, c)
                 ELSE vec[i]]
    ELSE vec

\* A cancel_row that scales the pivot row as well.
cancel_row_ScalesPivot(vec, row1, row2, cols, first_nonzero) ==
    IF At(vec, cols, row2, first_nonzero) # 0
    THEN LET l == lcm(Abs(At(vec, cols, row1, first_nonzero)),
                      Abs(At(vec, cols, row2, first_nonzero)))
             row1_factor == Div(l, At(vec, cols, row1, first_nonzero))
             row2_factor == Div(l, At(vec, cols, row2, first_nonzero))
         IN  [i \in 1..Len(vec) |->
                LET r == (i - 1) \div cols
                    c == (i - 1) % cols
                IN  IF r = row2 /\ c >= first_nonzero
                    THEN At(vec, cols, row1, c) * row1_factor
                         - At(vec, cols, row2, c) * row2_factor
                    ELSE IF r = row1 THEN vec[i] * row1_factor
                    ELSE vec[i]]
    ELSE vec

\* cancel_row
cancel_row(vec, row1, row2, cols, first_nonzero) ==
    IF At(vec, cols, row2, first_nonzero) # 0
    THEN LET l == lcm(Abs(At(vec, cols, row1, first_nonzero)),
                      Abs(At(vec, cols, row2, first_nonzero)))
             row1_factor == Div(l, At(vec, cols, row1, first_nonzero))
             row2_factor == Div(l, At(vec, cols, row2, first_nonzero))
         IN  [i \in 1..Len(vec) |->
                LET r == (i - 1) \div cols
                    c == (i - 1) % cols
                IN  IF r = row2 /\ c >= first_nonzero
                    THEN At(vec, cols, row1, c) * row1_factor
                         - At(vec, cols, row2, c) * row2_factor
                    ELSE vec[i]]
    ELSE vec

RECURSIVE SumTo(_, _)
\* f[0] + ... + f[n - 1]
SumTo(f, n) == IF n = 0 THEN 0 ELSE SumTo(f, n - 1) + f[n - 1]

\* integer_gauss, lines 88-94: |sum| of coefficient * value over the columns
\* right of the pivot, nearest to the end first; sols[n + 1] is solutions[n].
OtherSum(vec, cols, r, sols) ==
    Abs(SumTo([n \in 0..(cols - r - 2) |->
                  At(vec, cols, r, cols - 1 - n) * sols[n + 1]],
              cols - r - 1))

\* matrix[row * columns + row].abs()
FirstCoefficient(vec, cols, r) == Abs(At(vec, cols, r, r))

\* integer_gauss, line 98: lcm is called with an operand that is not positive.
BackPanics(vec, cols, r, sols) ==
    LcmPanics(FirstCoefficient(vec, cols, r), OtherSum(vec, cols, r, sols))

\* A back-substitution that pushes the new value and leaves the solved ones.
BackSubstitute_NoRescale(vec, cols, r, sols) ==
    LET first_coefficient == FirstCoefficient(vec, cols, r)
        other_sum == OtherSum(vec, cols, r, sols)
        l == lcm(first_coefficient, other_sum)
    IN  Append(sols, Div(l, first_coefficient))

\* integer_gauss, lines 97-102: the solved values rescaled by lcm / other_sum,
\* the new value lcm / first_coefficient pushed.
BackSubstitute(vec, cols, r, sols) ==
    LET first_coefficient == FirstCoefficient(vec, cols, r)
        other_sum == OtherSum(vec, cols, r, sols)
        l == lcm(first_coefficient, other_sum)
        solution == Div(l, first_coefficient)
        other_factor == Div(l, other_sum)
    IN  Append([n \in 1..Len(sols) |-> sols[n] * other_factor], solution)

\* Mutant of TooFewRows: as many rows as columns are required.
TooFewRows_OffByOne(vec, cols) == Len(vec) \div cols < cols

\* integer_gauss, lines 64-66: rows < least_required_rows
TooFewRows(vec, cols) == Len(vec) \div cols < cols - 1

\* solutions.reverse()
Reverse(sq) == [n \in 1..Len(sq) |-> sq[Len(sq) + 1 - n]]

SolverInit ==
    /\ Build64
    /\ ParserIdle /\ EquationIdle /\ LcmIdle /\ UpdateIdle
    /\ \E nr \in 1..(MaxChemicals - 1) : \E np \in 1..(MaxChemicals - nr) :
          /\ reagents \in [1..nr -> Chemicals]
          /\ products \in [1..np -> Chemicals]
    /\ matrix = << >> /\ columns = 0
    /\ row = 0 /\ other_row = 0 /\ solutions = << >>
    /\ pc = "create" /\ result = Running

\* calculate_coefficients, line 14: get_elements_involved fails.
UnbalancedElements ==
    /\ pc = "create"
    /\ Unbalanced(reagents, products)
    /\ result' = Err("UnbalancedElements")
    /\ pc' = "done"
    /\ UNCHANGED <<reagents, products, matrix, columns, row, other_row, solutions>>
    /\ UNCHANGED <<buildVars, parserVars, equationVars, lcmVars, updateVars>>

\* calculate_coefficients, line 14: create_linear_equation builds the matrix,
\* its rows in the order the HashSet yields the elements.
CreateLinearEquation ==
    /\ pc = "create"
    /\ ~Unbalanced(reagents, products)
    /\ \E order \in Orders(ElementList(reagents)) :
          matrix' = LinearEquation(reagents, products, order)
    /\ columns' = Len(reagents) + Len(products)
    /\ pc' = "gauss"
    /\ UNCHANGED <<reagents, products, row, other_row, solutions, result>>
    /\ UNCHANGED <<buildVars, parserVars, equationVars, lcmVars, updateVars>>

\* integer_gauss, lines 64-68: too few rows.
InfiniteSolution ==
    /\ pc = "gauss"
    /\ TooFewRows(matrix, columns)
    /\ result' = Err("InfiniteSolution")
    /\ pc' = "done"
    /\ UNCHANGED <<reagents, products, matrix, columns, row, other_row, solutions>>
    /\ UNCHANGED <<buildVars, parserVars, equationVars, lcmVars, updateVars>>

\* integer_gauss, lines 64-70: enough rows, the elimination loop is entered.
EnterElimination ==
    /\ pc = "gauss"
    /\ ~TooFewRows(matrix, columns)
    /\ row' = 0
    /\ pc' = "pivot"
    /\ UNCHANGED <<reagents, products, matrix, columns, other_row, solutions, result>>
    /\ UNCHANGED <<buildVars, parserVars, equationVars, lcmVars, updateVars>>

\* integer_gauss, lines 71-79: the pivot of `row` is looked for.
Pivot ==
    /\ pc = "pivot"
    /\ matrix' = PivotSwap(matrix, columns, row)
    /\ other_row' = row + 1
    /\ pc' = "cancel"
    /\ UNCHANGED <<reagents, products, columns, row, solutions, result>>
    /\ UNCHANGED <<buildVars, parserVars, equationVars, lcmVars, updateVars>>

\* integer_gauss, lines 81-83: one cancel_row call.
CancelRow ==
    /\ pc = "cancel"
    /\ other_row < Len(matrix) \div columns
    /\ IF CancelPanics(matrix, row, other_row, columns, row)
       THEN /\ result' = Panic
            /\ pc' = "done"
            /\ UNCHANGED <<matrix, other_row>>
       ELSE /\ matrix' = cancel_row(matrix, row, other_row, columns, row)
            /\ other_row' = other_row + 1
            /\ UNCHANGED <<pc, result>>
    /\ UNCHANGED <<reagents, products, columns, row, solutions>>
    /\ UNCHANGED <<buildVars, parserVars, equationVars, lcmVars, updateVars>>

\* integer_gauss, lines 70 and 86-87: the rows below `row` are done; the next
\* pivot follows, or the back-substitution starts with solutions = vec![1].
EndCancel ==
    /\ pc = "cancel"
    /\ other_row = Len(matrix) \div columns
    /\ IF row + 1 < columns - 1
       THEN /\ row' = row + 1
            /\ pc' = "pivot"
            /\ UNCHANGED solutions
       ELSE /\ row' = columns - 2
            /\ solutions' = <<1>>
            /\ pc' = "back"
    /\ UNCHANGED <<reagents, products, matrix, columns, other_row, result>>
    /\ UNCHANGED <<buildVars, parserVars, equationVars, lcmVars, updateVars>>

\* integer_gauss, lines 87-103: one pass of the back-substitution loop.
BackSubstituteRow ==
    /\ pc = "back"
    /\ IF BackPanics(matrix, columns, row, solutions)
       THEN /\ result' = Panic
            /\ pc' = "done"
            /\ UNCHANGED <<row, solutions>>
       ELSE /\ solutions' = BackSubstitute(matrix, columns, row, solutions)
            /\ row' = IF row = 0 THEN row ELSE row - 1
            /\ pc' = IF row = 0 THEN "reverse" ELSE "back"
            /\ UNCHANGED result
    /\ UNCHANGED <<reagents, products, matrix, columns, other_row>>
    /\ UNCHANGED <<buildVars, parserVars, equationVars, lcmVars, updateVars>>

\* integer_gauss, lines 105-106
ReturnSolutions ==
    /\ pc = "reverse"
    /\ solutions' = Reverse(solutions)
    /\ result' = Ok(Reverse(solutions))
    /\ pc' = "done"
    /\ UNCHANGED <<reagents, products, matrix, columns, row, other_row>>
    /\ UNCHANGED <<buildVars, parserVars, equationVars, lcmVars, updateVars>>

SolverNext ==
    \/ UnbalancedElements \/ CreateLinearEquation
    \/ InfiniteSolution \/ EnterElimination
    \/ Pivot \/ CancelRow \/ EndCancel
    \/ BackSubstituteRow
    \/ ReturnSolutions

SolverSpec == SolverInit /\ [][SolverNext]_vars

\* A third element symbol, for equations with three balance rows.
WideElements == Elements \cup {<<"A", "a">>}

WideChemicals == UNION {[D -> 1..MaxCount] : D \in SUBSET WideElements}

\* The same call with formulas over three elements: the elimination then has
\* a second pivot with a row below it.
WideSolverInit ==
    /\ Build64
    /\ ParserIdle /\ EquationIdle /\ LcmIdle /\ UpdateIdle
    /\ \E nr \in 1..(MaxChemicals - 1) : \E np \in 1..(MaxChemicals - nr) :
          /\ reagents \in [1..nr -> WideChemicals]
          /\ products \in [1..np -> WideChemicals]
    /\ matrix = << >> /\ columns = 0
    /\ row = 0 /\ other_row = 0 /\ solutions = << >>
    /\ pc = "create" /\ result = Running

WideSolverSpec == WideSolverInit /\ [][SolverNext]_vars

\* ------------------------------ the solver as a function of the row order

RECURSIVE ForwardFrom(_, _, _, _)
\* The elimination loop from the cancel_row call of pivot r on row o to its
\* end: the matrix it leaves, or the panic of an lcm assertion.
ForwardFrom(vec, cols, r, o) ==
    IF o < Len(vec) \div cols
    THEN IF CancelPanics(vec, r, o, cols, r)
         THEN [panic |-> TRUE, vec |-> vec]
         ELSE ForwardFrom(cancel_row(vec, r, o, cols, r), cols, r, o + 1)
    ELSE IF r + 1 < cols - 1
         THEN ForwardFrom(PivotSwap(vec, cols, r + 1), cols, r + 1, r + 2)
         ELSE [panic |-> FALSE, vec |-> vec]

RECURSIVE BackFrom(_, _, _, _)
\* The back-substitution loop from row r to row 0, and the return.
BackFrom(vec, cols, r, sols) ==
    IF BackPanics(vec, cols, r, sols) THEN Panic
    ELSE IF r = 0 THEN Ok(Reverse(BackSubstitute(vec, cols, r, sols)))
    ELSE BackFrom(vec, cols, r - 1, BackSubstitute(vec, cols, r, sols))

\* integer_gauss
integer_gauss(vec, cols) ==
    IF TooFewRows(vec, cols) THEN Err("InfiniteSolution")
    ELSE LET f == ForwardFrom(PivotSwap(vec, cols, 0), cols, 0, 1)
         IN  IF f.panic THEN Panic ELSE BackFrom(f.vec, cols, cols - 2, <<1>>)

\* calculate_coefficients, when the HashSet yields the elements in `order`.
calculate_coefficients(rs, ps, order) ==
    IF Unbalanced(rs, ps) THEN Err("UnbalancedElements")
    ELSE integer_gauss(LinearEquation(rs, ps, order), Len(rs) + Len(ps))

\* The run of the step actions is the function under one of the row orders.
SolverRunIsSomeOrder ==
    pc = "done" =>
        \E order \in Orders(ElementList(reagents)) :
            calculate_coefficients(reagents, products, order) = result

\* ------------------------------------------------------ lcm, step by step

\* i64::MAX
I64Max == TwoTo(i64_bits - 1) - 1

\* A call of lcm on an i64 of NarrowI64Bits bits, where the operands reach
\* the overflow of a * b that a 64-bit i64 meets on operands above 2^31;
\* either build profile.
LcmInit ==
    /\ usize_bits = UsizeBits
    /\ i64_bits = NarrowI64Bits
    /\ overflow_checks \in BOOLEAN
    /\ ParserIdle /\ SolverIdle /\ EquationIdle /\ UpdateIdle
    /\ lcm_a \in 0..I64Max
    /\ lcm_b \in 0..I64Max
    /\ gcd_a = 0 /\ gcd_b = 0 /\ gcd_shift = 0 /\ gcd_result = 0
    /\ lcm_pc = "assert"
    /\ lcm_result = Running

\* One of the assertions of lines 143-144 fails.
AssertFails ==
    /\ lcm_pc = "assert"
    /\ LcmPanics(lcm_a, lcm_b)
    /\ lcm_result' = Panic
    /\ lcm_pc' = "done"
    /\ UNCHANGED <<lcm_a, lcm_b, gcd_a, gcd_b, gcd_shift, gcd_result>>
    /\ UNCHANGED <<buildVars, parserVars, solverVars, equationVars, updateVars>>

\* gcd(a, b) is called with a == b and returns a.
GcdOfEqual ==
    /\ lcm_pc = "assert"
    /\ ~LcmPanics(lcm_a, lcm_b)
    /\ lcm_a = lcm_b
    /\ gcd_a' = lcm_a /\ gcd_b' = lcm_b
    /\ gcd_result' = lcm_a
    /\ lcm_pc' = "divide"
    /\ UNCHANGED <<lcm_a, lcm_b, gcd_shift, lcm_result>>
    /\ UNCHANGED <<buildVars, parserVars, solverVars, equationVars, updateVars>>

\* gcd(a, b) is called with a != b: let mut shift = 0.
GcdOfDifferent ==
    /\ lcm_pc = "assert"
    /\ ~LcmPanics(lcm_a, lcm_b)
    /\ lcm_a # lcm_b
    /\ gcd_a' = lcm_a /\ gcd_b' = lcm_b
    /\ gcd_shift' = 0
    /\ lcm_pc' = "common"
    /\ UNCHANGED <<lcm_a, lcm_b, gcd_result, lcm_result>>
    /\ UNCHANGED <<buildVars, parserVars, solverVars, equationVars, updateVars>>

\* A turn of `while ((a | b) & 1) == 0`.
ShiftBoth ==
    /\ lcm_pc = "common"
    /\ gcd_a % 2 = 0 /\ gcd_b % 2 = 0
    /\ gcd_shift' = gcd_shift + 1
    /\ gcd_a' = gcd_a \div 2
    /\ gcd_b' = gcd_b \div 2
    /\ UNCHANGED <<lcm_a, lcm_b, gcd_result, lcm_pc, lcm_result>>
    /\ UNCHANGED <<buildVars, parserVars, solverVars, equationVars, updateVars>>

\* That loop ends.
ShiftBothEnds ==
    /\ lcm_pc = "common"
    /\ ~(gcd_a % 2 = 0 /\ gcd_b % 2 = 0)
    /\ lcm_pc' = "strip_a"
    /\ UNCHANGED <<lcm_a, lcm_b, gcd_a, gcd_b, gcd_shift, gcd_result, lcm_result>>
    /\ UNCHANGED <<buildVars, parserVars, solverVars, equationVars, updateVars>>

\* A turn of `while a & 1 == 0`.
ShiftA ==
    /\ lcm_pc = "strip_a"
    /\ gcd_a % 2 = 0
    /\ gcd_a' = gcd_a \div 2
    /\ UNCHANGED <<lcm_a, lcm_b, gcd_b, gcd_shift, gcd_result, lcm_pc, lcm_result>>
    /\ UNCHANGED <<buildVars, parserVars, solverVars, equationVars, updateVars>>

\* That loop ends, and `loop` is entered.
ShiftAEnds ==
    /\ lcm_pc = "strip_a"
    /\ gcd_a % 2 # 0
    /\ lcm_pc' = "loop"
    /\ UNCHANGED <<lcm_a, lcm_b, gcd_a, gcd_b, gcd_shift, gcd_result, lcm_result>>
    /\ UNCHANGED <<buildVars, parserVars, solverVars, equationVars, updateVars>>

\* A turn of `while (b & 1) == 0`.
ShiftB ==
    /\ lcm_pc = "loop"
    /\ gcd_b % 2 = 0
    /\ gcd_b' = gcd_b \div 2
    /\ UNCHANGED <<lcm_a, lcm_b, gcd_a, gcd_shift, gcd_result, lcm_pc, lcm_result>>
    /\ UNCHANGED <<buildVars, parserVars, solverVars, equationVars, updateVars>>

\* Lines 162-168: the swap, b -= a, and the break with `a << shift`.
Subtract ==
    /\ lcm_pc = "loop"
    /\ gcd_b % 2 # 0
    /\ LET a == IF gcd_a > gcd_b THEN gcd_b ELSE gcd_a
           b == IF gcd_a > gcd_b THEN gcd_a ELSE gcd_b
       IN  /\ gcd_a' = a
           /\ gcd_b' = b - a
           /\ IF b - a = 0
              THEN /\ gcd_result' = a * Pow2(gcd_shift)
                   /\ lcm_pc' = "divide"
              ELSE UNCHANGED <<gcd_result, lcm_pc>>
    /\ UNCHANGED <<lcm_a, lcm_b, gcd_shift, lcm_result>>
    /\ UNCHANGED <<buildVars, parserVars, solverVars, equationVars, updateVars>>

\* a * b / gcd(a, b)
Divide ==
    /\ lcm_pc = "divide"
    /\ lcm_result' = IF overflow_checks /\ ~FitsI64(lcm_a * lcm_b)
                     THEN Panic
                     ELSE Ok(Div(WrapI64(lcm_a * lcm_b), gcd_result))
    /\ lcm_pc' = "done"
    /\ UNCHANGED <<lcm_a, lcm_b, gcd_a, gcd_b, gcd_shift, gcd_result>>
    /\ UNCHANGED <<buildVars, parserVars, solverVars, equationVars, updateVars>>

LcmNext ==
    \/ AssertFails \/ GcdOfEqual \/ GcdOfDifferent
    \/ ShiftBoth \/ ShiftBothEnds
    \/ ShiftA \/ ShiftAEnds
    \/ ShiftB \/ Subtract
    \/ Divide

LcmSpec == LcmInit /\ [][LcmNext]_vars

\* lcm runs to its end: nothing else is scheduled between its steps.
LcmFairSpec == LcmSpec /\ WF_vars(LcmNext)

\* The steps compute what the operators gcd and lcm of the solver compute.
LcmRunIsLcm ==
    /\ lcm_pc \in {"divide", "done"} /\ lcm_result # Panic
          => gcd_result = gcd(lcm_a, lcm_b)
    /\ lcm_result.tag = "Ok" => lcm_result.v = lcm(lcm_a, lcm_b)

\* ---------------------------------- the equation reader (src/src/lib.rs)

\* The characters of the equation strings: "+" and "=" separate, " " is white
\* space, the others are formula characters.
EquationAlphabet == {"A", "2", "(", ")", "+", "=", " "}

EquationStrings == UNION {[1..k -> EquationAlphabet] : k \in 0..MaxEquationLen}

\* The first position of ch in s, 0 when s holds none.
Find(s, ch) ==
    IF \E i \in 1..Len(s) : s[i] = ch
    THEN CHOOSE i \in 1..Len(s) : s[i] = ch /\ \A k \in 1..(i - 1) : s[k] # ch
    ELSE 0

\* s.splitn(2, '='), all its items
splitn2(s) ==
    LET i == Find(s, "=")
    IN  IF i = 0 THEN <<s>>
        ELSE <<SubSeq(s, 1, i - 1), SubSeq(s, i + 1, Len(s))>>

RECURSIVE split(_, _)
\* s.split(ch), all its items
split(s, ch) ==
    LET i == Find(s, ch)
    IN  IF i = 0 THEN <<s>>
        ELSE <<SubSeq(s, 1, i - 1)>> \o split(SubSeq(s, i + 1, Len(s)), ch)

RECURSIVE TrimStart(_)
TrimStart(s) == IF s # << >> /\ s[1] = " " THEN TrimStart(Tail(s)) ELSE s

RECURSIVE TrimEnd(_)
TrimEnd(s) ==
    IF s # << >> /\ s[Len(s)] = " " THEN TrimEnd(SubSeq(s, 1, Len(s) - 1)) ELSE s

\* str::trim
trim(s) == TrimEnd(TrimStart(s))

\* The message of lines 116 and 125: the piece `str` is not a formula.
NotAFormula(str) == Err([kind |-> "NotAFormula", text |-> str])

\* The message of line 121: the input has not the form
\* reagents = products.
MissingSeparator == Err([kind |-> "MissingSeparator", text |-> << >>])

\* left.split('+')
Left == split(splitn2(equation)[1], "+")

\* right?.split('+')
Right == split(splitn2(equation)[2], "+")

EquationInit ==
    /\ Build64
    /\ ParserIdle /\ SolverIdle /\ LcmIdle /\ UpdateIdle
    /\ equation \in EquationStrings
    /\ eq_side = "left"
    /\ eq_index = 1
    /\ eq_reagents = << >>
    /\ eq_products = << >>
    /\ eq_result = Running

\* A turn of the loop of lines 114-118 on a piece that is a formula.
PushReagent ==
    /\ eq_side = "left" /\ eq_index <= Len(Left)
    /\ LET reagent == parse_chemical(trim(Left[eq_index]))
       IN  /\ reagent.tag = "Some"
           /\ eq_reagents' = Append(eq_reagents, reagent)
    /\ eq_index' = eq_index + 1
    /\ UNCHANGED <<equation, eq_side, eq_products, eq_result>>
    /\ UNCHANGED <<buildVars, parserVars, solverVars, lcmVars, updateVars>>

\* A turn of that loop on a piece that is none: `reagent?` returns the error.
ReagentRejected ==
    /\ eq_side = "left" /\ eq_index <= Len(Left)
    /\ LET reagent == parse_chemical(trim(Left[eq_index]))
       IN  /\ reagent.tag # "Some"
           /\ eq_result' = IF reagent.tag = "None"
                           THEN NotAFormula(Left[eq_index]) ELSE Panic
    /\ eq_side' = "done"
    /\ UNCHANGED <<equation, eq_index, eq_reagents, eq_products>>
    /\ UNCHANGED <<buildVars, parserVars, solverVars, lcmVars, updateVars>>

\* Lines 119-121 and `right?` when split has no second item.
SeparatorMissing ==
    /\ eq_side = "left" /\ eq_index > Len(Left)
    /\ Len(splitn2(equation)) = 1
    /\ eq_result' = MissingSeparator
    /\ eq_side' = "done"
    /\ UNCHANGED <<equation, eq_index, eq_reagents, eq_products>>
    /\ UNCHANGED <<buildVars, parserVars, solverVars, lcmVars, updateVars>>

\* Lines 119-123 when split has a second item.
StartProducts ==
    /\ eq_side = "left" /\ eq_index > Len(Left)
    /\ Len(splitn2(equation)) = 2
    /\ eq_side' = "right"
    /\ eq_index' = 1
    /\ UNCHANGED <<equation, eq_reagents, eq_products, eq_result>>
    /\ UNCHANGED <<buildVars, parserVars, solverVars, lcmVars, updateVars>>

\* A turn of the loop of lines 123-127 on a piece that is a formula.
PushProduct ==
    /\ eq_side = "right" /\ eq_index <= Len(Right)
    /\ LET product == parse_chemical(trim(Right[eq_index]))
       IN  /\ product.tag = "Some"
           /\ eq_products' = Append(eq_products, product)
    /\ eq_index' = eq_index + 1
    /\ UNCHANGED <<equation, eq_side, eq_reagents, eq_result>>
    /\ UNCHANGED <<buildVars, parserVars, solverVars, lcmVars, updateVars>>

\* A turn of that loop on a piece that is none: `product?` returns the error.
ProductRejected ==
    /\ eq_side = "right" /\ eq_index <= Len(Right)
    /\ LET product == parse_chemical(trim(Right[eq_index]))
       IN  /\ product.tag # "Some"
           /\ eq_result' = IF product.tag = "None"
                           THEN NotAFormula(Right[eq_index]) ELSE Panic
    /\ eq_side' = "done"
    /\ UNCHANGED <<equation, eq_index, eq_reagents, eq_products>>
    /\ UNCHANGED <<buildVars, parserVars, solverVars, lcmVars, updateVars>>

\* Ok((reagents, products))
ReturnEquation ==
    /\ eq_side = "right" /\ eq_index > Len(Right)
    /\ eq_result' = Ok(<<eq_reagents, eq_products>>)
    /\ eq_side' = "done"
    /\ UNCHANGED <<equation, eq_index, eq_reagents, eq_products>>
    /\ UNCHANGED <<buildVars, parserVars, solverVars, lcmVars, updateVars>>

EquationNext ==
    \/ PushReagent \/ ReagentRejected
    \/ SeparatorMissing \/ StartProducts
    \/ PushProduct \/ ProductRejected
    \/ ReturnEquation

EquationSpec == EquationInit /\ [][EquationNext]_vars

\* parse_equation as a function of the whole string: the loop of lines
\* 114-118 (or 123-127) over the pieces from the i-th on.
RECURSIVE ParsePieces(_, _, _)
ParsePieces(pieces, i, chemicals) ==
    IF i > Len(pieces) THEN Ok(chemicals)
    ELSE LET chemical == parse_chemical(trim(pieces[i]))
         IN  IF chemical.tag = "Some"
             THEN ParsePieces(pieces, i + 1, Append(chemicals, chemical))
             ELSE IF chemical.tag = "None" THEN NotAFormula(pieces[i])
             ELSE Panic

parse_equation(s) ==
    LET halves == splitn2(s)
        left == ParsePieces(split(halves[1], "+"), 1, << >>)
    IN  IF left.tag # "Ok" THEN left
        ELSE IF Len(halves) = 1 THEN MissingSeparator
        ELSE LET right == ParsePieces(split(halves[2], "+"), 1, << >>)
             IN  IF right.tag # "Ok" THEN right
                 ELSE Ok(<<left.v, right.v>>)

\* The run of the step actions is the function.
EquationRunIsFunction ==
    eq_side = "done" => eq_result = parse_equation(equation)

\* ------------------------------------------ the page (src/src/lib.rs)

\* Longest text of the input field.
MaxInputLen == 3

\* Most entries of Model.history.
MaxHistory == 2

\* The values of Msg::SetInput: the texts of these characters.
Inputs ==
    LET InputAlphabet == {"A", "B", "2", "="}
    IN  UNION {[1..k -> InputAlphabet] : k \in 0..MaxInputLen}

\* The key_string "Enter"
Enter == <<"E", "n", "t", "e", "r">>

None == [tag |-> "None"]
Some(v) == [tag |-> "Some", v |-> v]

\* The variants of FormattedChemical.
Bold(s) == [kind |-> "Bold", text |-> s]
Text(s) == [kind |-> "Text", text |-> s]
Sub(s) == [kind |-> "Sub", text |-> s]

RECURSIVE format_chemicals(_)
\* format_chemicals: the text before each numeral as Text, the numeral as
\* Sub, what is left at the end as Text unless it is empty.  `index` and
\* `end` are the results of stage.find, counted from 1 (0: None);
\* char::is_numeric is the membership in Digit.
format_chemicals(stage) ==
    LET is_numeric(c) == c \in Digit
        Find_(s, numeric) ==
            IF \E i \in 1..Len(s) : is_numeric(s[i]) = numeric
            THEN CHOOSE i \in 1..Len(s) :
                    /\ is_numeric(s[i]) = numeric
                    /\ \A k \in 1..(i - 1) : is_numeric(s[k]) # numeric
            ELSE 0
        index == Find_(stage, TRUE)
        rest == SubSeq(stage, index, Len(stage))
        end == Find_(rest, FALSE)
    IN  IF index = 0
        THEN IF stage # << >> THEN <<Text(stage)>> ELSE << >>
        ELSE IF end = 0
        THEN <<Text(SubSeq(stage, 1, index - 1)), Sub(rest)>>
        ELSE <<Text(SubSeq(stage, 1, index - 1)), Sub(SubSeq(rest, 1, end - 1))>>
                \o format_chemicals(SubSeq(rest, end, Len(rest)))

RECURSIVE to_string(_)
\* i64::to_string
to_string(n) ==
    LET DecimalDigit(d) ==
            CASE d = 0 -> "0" [] d = 1 -> "1" [] d = 2 -> "2" [] d = 3 -> "3"
              [] d = 4 -> "4" [] d = 5 -> "5" [] d = 6 -> "6" [] d = 7 -> "7"
              [] d = 8 -> "8" [] d = 9 -> "9"
    IN  IF n < 0 THEN <<"-">> \o to_string(-n)
        ELSE IF n < 10 THEN <<DecimalDigit(n)>>
        ELSE to_string(n \div 10) \o <<DecimalDigit(n % 10)>>

RECURSIVE FormatTerms(_, _, _)
\* The loops of lines 51-61 and 65-75 from their i-th turn on: " + " between
\* the terms, the coefficient in bold when it is above 1, the formula.
FormatTerms(chemicals, coefs, i) ==
    IF i > Len(chemicals) \/ i > Len(coefs) THEN << >>
    ELSE (IF i > 1 THEN <<Text(<<" ", "+", " ">>)>> ELSE << >>)
            \o (IF coefs[i] > 1 THEN <<Bold(to_string(coefs[i]))>> ELSE << >>)
            \o format_chemicals(chemicals[i].display)
            \o FormatTerms(chemicals, coefs, i + 1)

\* The vector `result` of lines 49-75.
FormatResult(rs, ps, coefficients) ==
    FormatTerms(rs, coefficients, 1)
        \o <<Text(<<" ", "=", " ">>)>>
        \o FormatTerms(ps, SubSeq(coefficients, Len(rs) + 1, Len(coefficients)), 1)

\* The messages of lines 81 and 84-87, one for each ReactionError.
ReactionMessage(error) == [kind |-> error, text |-> << >>]

Msg(tag, arg) == [tag |-> tag, arg |-> arg]

NoOrders == [skip |-> FALSE, send_msg |-> << >>, after_next_render |-> << >>]

\* The page starts on Model::default().
UpdateInit ==
    /\ Build64
    /\ ParserIdle /\ SolverIdle /\ EquationIdle /\ LcmIdle
    /\ UpdateIdle

\* update is called with m: a panic has ended the program, so that no message
\* is handled after one.
Handles(m) ==
    /\ update_ret # "panic"
    /\ msg' = m
    /\ UNCHANGED <<buildVars, parserVars, solverVars, equationVars, lcmVars>>

\* reaction::calculate_coefficients(&reagents, &products) on what
\* parse_equation returned, which reads the parts of each Chemical; the
\* HashSet yields the elements in the order `o`.
Coefficients(parsed, o) ==
    LET PartsOf(chemicals) == [i \in 1..Len(chemicals) |-> chemicals[i].parts]
    IN  calculate_coefficients(PartsOf(parsed.v[1]), PartsOf(parsed.v[2]), o)

\* The orders in which the HashSet of the reagents' elements can be iterated.
RowOrders(parsed) ==
    Orders(ElementList([i \in 1..Len(parsed.v[1]) |-> parsed.v[1][i].parts]))

\* Lines 93-96: the callback that sends Msg::Idle after the next render.
BalanceReturns ==
    /\ orders' = [NoOrders EXCEPT !.after_next_render = <<Msg("Idle", << >>)>>]
    /\ update_ret' = "returned"

\* Msg::InputKeyDown with the key "Enter"
InputKeyDownEnter ==
    /\ Handles(Msg("InputKeyDown", Enter))
    /\ orders' = [NoOrders EXCEPT !.skip = TRUE,
                                  !.send_msg = <<Msg("Balance", << >>)>>]
    /\ update_ret' = "returned"
    /\ UNCHANGED <<model_input, model_result, model_error, model_history>>

\* Msg::InputKeyDown with another key
InputKeyDownOther ==
    \E key_string \in {<<"a">>} :
        /\ Handles(Msg("InputKeyDown", key_string))
        /\ orders' = NoOrders
        /\ update_ret' = "returned"
        /\ UNCHANGED <<model_input, model_result, model_error, model_history>>

\* Msg::Balance, lines 76-78: the result is shown, the pair of the formatted
\* input and the result is pushed to the history, the input is cleared.
\* (Here and below a local of update is bound by \E over a singleton, which
\* computes its value once.)
BalanceOk ==
    /\ Handles(Msg("Balance", << >>))
    /\ Len(model_history) < MaxHistory
    /\ \E parsed \in {parse_equation(model_input)} :
        /\ parsed.tag = "Ok"
        /\ \E o \in RowOrders(parsed) :
            \E coefficients \in {Coefficients(parsed, o)} :
                /\ coefficients.tag = "Ok"
                /\ \E formatted \in {FormatResult(parsed.v[1], parsed.v[2],
                                                  coefficients.v)} :
                    /\ model_result' = Some(formatted)
                    /\ model_history' =
                          Append(model_history,
                                 <<format_chemicals(model_input), formatted>>)
    /\ model_error' = None
    /\ model_input' = << >>
    /\ BalanceReturns

\* Msg::Balance, lines 80-82
BalanceInfiniteSolution ==
    /\ Handles(Msg("Balance", << >>))
    /\ \E parsed \in {parse_equation(model_input)} :
        /\ parsed.tag = "Ok"
        /\ \E o \in RowOrders(parsed) :
            \E coefficients \in {Coefficients(parsed, o)} :
                coefficients.tag = "Err" /\ coefficients.error = "InfiniteSolution"
    /\ model_error' = Some(ReactionMessage("InfiniteSolution"))
    /\ BalanceReturns
    /\ UNCHANGED <<model_input, model_result, model_history>>

\* Msg::Balance, lines 83-88
BalanceUnbalancedElements ==
    /\ Handles(Msg("Balance", << >>))
    /\ \E parsed \in {parse_equation(model_input)} :
        /\ parsed.tag = "Ok"
        /\ \E o \in RowOrders(parsed) :
            \E coefficients \in {Coefficients(parsed, o)} :
                coefficients.tag = "Err" /\ coefficients.error = "UnbalancedElements"
    /\ model_error' = Some(ReactionMessage("UnbalancedElements"))
    /\ BalanceReturns
    /\ UNCHANGED <<model_input, model_result, model_history>>

\* Mutant of BalanceParseError: the rejected text is cleared from the input
\* field.
BalanceParseError_ClearsInput ==
    /\ Handles(Msg("Balance", << >>))
    /\ \E parsed \in {parse_equation(model_input)} :
        /\ parsed.tag = "Err"
        /\ model_error' = Some(parsed.error)
    /\ model_input' = << >>
    /\ BalanceReturns
    /\ UNCHANGED <<model_result, model_history>>

\* Msg::Balance, line 91: parse_equation's message becomes the error.
BalanceParseError ==
    /\ Handles(Msg("Balance", << >>))
    /\ \E parsed \in {parse_equation(model_input)} :
        /\ parsed.tag = "Err"
        /\ model_error' = Some(parsed.error)
    /\ BalanceReturns
    /\ UNCHANGED <<model_input, model_result, model_history>>

\* Msg::Balance when parse_equation or calculate_coefficients panics: line 44
\* has run, nothing after the call has.
BalancePanics ==
    /\ Handles(Msg("Balance", << >>))
    /\ \E parsed \in {parse_equation(model_input)} :
        \/ parsed.tag = "panic"
        \/ /\ parsed.tag = "Ok"
           /\ \E o \in RowOrders(parsed) :
                \E coefficients \in {Coefficients(parsed, o)} :
                    coefficients.tag = "panic"
    /\ model_error' = None
    /\ orders' = NoOrders
    /\ update_ret' = "panic"
    /\ UNCHANGED <<model_input, model_result, model_history>>

\* Msg::SetInput
SetInput ==
    \E text \in Inputs :
        /\ Handles(Msg("SetInput", text))
        /\ model_input' = text
        /\ orders' = NoOrders
        /\ update_ret' = "returned"
        /\ UNCHANGED <<model_result, model_error, model_history>>

\* Mutant of Reset: the history is emptied as well.
Reset_ClearsHistory ==
    /\ Handles(Msg("Reset", << >>))
    /\ model_result' = None
    /\ model_error' = None
    /\ model_history' = << >>
    /\ orders' = NoOrders
    /\ update_ret' = "returned"
    /\ UNCHANGED <<model_input>>

\* Msg::Reset
Reset ==
    /\ Handles(Msg("Reset", << >>))
    /\ model_result' = None
    /\ model_error' = None
    /\ orders' = NoOrders
    /\ update_ret' = "returned"
    /\ UNCHANGED <<model_input, model_history>>

\* Msg::Idle
Idle ==
    /\ Handles(Msg("Idle", << >>))
    /\ orders' = [NoOrders EXCEPT !.skip = TRUE]
    /\ update_ret' = "returned"
    /\ UNCHANGED <<model_input, model_result, model_error, model_history>>

UpdateNext ==
    \/ InputKeyDownEnter \/ InputKeyDownOther
    \/ BalanceOk \/ BalanceInfiniteSolution \/ BalanceUnbalancedElements
    \/ BalanceParseError \/ BalancePanics
    \/ SetInput \/ Reset \/ Idle

UpdateSpec == UpdateInit /\ [][UpdateNext]_vars

\* ------------------------------------------- solver: reference semantics

\* Every element symbol of the input formulas.
AllElements(rs, ps) == ElementList(rs) \cup ElementList(ps)

\* Atoms of element e on the reagent side and on the product side under the
\* coefficients v (reagents first, then products).
ReagentAtoms(rs, v, e) ==
    SumTo([i \in 0..(Len(rs) - 1) |-> v[i + 1] * Get(rs[i + 1], e)], Len(rs))
ProductAtoms(rs, ps, v, e) ==
    SumTo([j \in 0..(Len(ps) - 1) |-> v[Len(rs) + j + 1] * Get(ps[j + 1], e)], Len(ps))

\* v balances the equation.
Balances(rs, ps, v) ==
    \A e \in AllElements(rs, ps) : ReagentAtoms(rs, v, e) = ProductAtoms(rs, ps, v, e)

SeqMax(v) == CHOOSE x \in {v[i] : i \in 1..Len(v)} : \A i \in 1..Len(v) : v[i] <= x

\* d divides every entry of v.
DividesAll(d, v) == \A i \in 1..Len(v) : v[i] % d = 0

\* The entries of v are positive and have no common divisor above 1.
PrimitivePositive(v) ==
    /\ \A i \in 1..Len(v) : v[i] >= 1
    /\ \A d \in 2..SeqMax(v) : ~DividesAll(d, v)

\* The signed atom count of element e in column c (1-based) of the balance
\* system.
Entry(rs, ps, e, c) ==
    IF c <= Len(rs) THEN Get(rs[c], e) ELSE 0 - Get(ps[c - Len(rs)], e)

\* sq without its j-th entry.
Without(sq, j) == SubSeq(sq, 1, j - 1) \o SubSeq(sq, j + 1, Len(sq))

RECURSIVE Det(_, _, _, _)
\* The determinant of the balance system's rows es (elements) and columns cs,
\* expanded along the first row.
Det(rs, ps, es, cs) ==
    IF Len(es) = 0 THEN 1
    ELSE SumTo([j \in 0..(Len(cs) - 1) |->
                   (IF j % 2 = 0 THEN 1 ELSE 0 - 1)
                   * Entry(rs, ps, es[1], cs[j + 1])
                   * Det(rs, ps, Without(es, 1), Without(cs, j + 1))],
               Len(cs))

\* The vector of signed maximal minors of the rows es (one row fewer than
\* there are columns): it is orthogonal to each of these rows.
Cofactors(rs, ps, es) ==
    LET cols == Len(rs) + Len(ps)
        all == [c \in 1..cols |-> c]
    IN  [c \in 1..cols |->
            (IF c % 2 = 0 THEN 1 ELSE 0 - 1) * Det(rs, ps, es, Without(all, c))]

\* M * w = 0 for the whole balance system M.
InNullSpace(rs, ps, w) ==
    \A e \in AllElements(rs, ps) :
        SumTo([c \in 0..(Len(w) - 1) |-> Entry(rs, ps, e, c + 1) * w[c + 1]], Len(w)) = 0

\* The selections of columns - 1 rows of the balance system.
RowChoices(rs, ps) ==
    {es \in [1..(Len(rs) + Len(ps) - 1) -> AllElements(rs, ps)] :
        \A i, j \in 1..Len(es) : es[i] = es[j] => i = j}

\* The null vectors that show the system to have rank columns - 1 and a null
\* space spanned by an all-positive vector: a non-zero cofactor vector of
\* columns - 1 rows that every row annihilates, its entries of one strict sign.
PositiveNullVectors(rs, ps) ==
    {[c \in 1..(Len(rs) + Len(ps)) |-> Abs(Cofactors(rs, ps, es)[c])] :
        es \in {x \in RowChoices(rs, ps) :
                  LET w == Cofactors(rs, ps, x)
                  IN  /\ InNullSpace(rs, ps, w)
                      /\ \/ \A c \in 1..Len(w) : w[c] > 0
                         \/ \A c \in 1..Len(w) : w[c] < 0}}

\* v divided by the greatest common divisor of its (positive) entries.
Primitive(v) ==
    LET g == CHOOSE d \in 1..SeqMax(v) :
                 DividesAll(d, v) /\ \A d2 \in (d + 1)..SeqMax(v) : ~DividesAll(d2, v)
    IN  [i \in 1..Len(v) |-> v[i] \div g]

\* Some product holds an element symbol that occurs in no reagent.
ProductElementMissing(rs, ps) ==
    \E j \in 1..Len(ps) : \E e \in DOMAIN ps[j] :
        \A i \in 1..Len(rs) : e \notin DOMAIN rs[i]

\* ---------------------------------------------------------- solver: claims

\* C1: a returned Ok(v) balances the equation: for every element of the
\* input, the reagents' atoms under v equal the products' atoms under v.
C1_OkBalances ==
    result.tag = "Ok" => Balances(reagents, products, result.v)

\* C2: calculate_coefficients never aborts on an lcm assertion.
C2_NeverAborts ==
    result # Panic

\* C6: every entry of a returned vector is at least 1 and the entries have
\* greatest common divisor 1.
C6_OkIsPrimitivePositive ==
    result.tag = "Ok" => PrimitivePositive(result.v)

\* [A2B] = [A2, B2] solved as <<2, 2, 1>>: the values were rescaled on the way.
C6_Witness ==
    /\ result.tag = "Ok"
    /\ result.v = <<2, 2, 1>>
    /\ \E i \in 1..Len(solutions) : solutions[i] > 1

\* C7: the outcome does not depend on the order in which the HashSet yields
\* the elements: every row order gives the outcome this run gave.
C7_SameOutcomeForEveryOrder ==
    pc = "done" =>
        \A order \in Orders(ElementList(reagents)) :
            calculate_coefficients(reagents, products, order) = result

\* C8: when the balance system has rank columns - 1 and its null space is
\* spanned by an all-positive vector, the call returns Ok(v) with v the
\* primitive positive vector of that null space, whatever the row order.
C8_UniqueSolutionFound ==
    pc = "done" =>
        \A w \in PositiveNullVectors(reagents, products) : result = Ok(Primitive(w))

\* Such a system with three formulas, solved with a coefficient above 1.
C8_Witness ==
    /\ pc = "done"
    /\ PositiveNullVectors(reagents, products) # {}
    /\ result.tag = "Ok"
    /\ Len(result.v) = 3
    /\ \E i \in 1..Len(result.v) : result.v[i] > 1

\* C9: the call returns Err(UnbalancedElements) exactly when some product
\* holds an element that no reagent holds; such an input yields neither
\* InfiniteSolution nor a vector, however few rows it has.
C9_UnbalancedIffProductElementMissing ==
    pc = "done" =>
        (result = Err("UnbalancedElements")
            <=> ProductElementMissing(reagents, products))

\* An input with a missing element and too few rows for its columns.
C9_Witness ==
    /\ result = Err("UnbalancedElements")
    /\ Cardinality(AllElements(reagents, products)) < Len(reagents) + Len(products) - 1
    /\ matrix = << >>

\* C10: with no product element missing, the call returns
\* Err(InfiniteSolution) exactly when there are fewer distinct elements than
\* columns - 1, and then no elimination step has run: the matrix is as built
\* and the loops were never entered.
C10_InfiniteIffTooFewElements ==
    (pc = "done" /\ ~ProductElementMissing(reagents, products)) =>
        /\ result = Err("InfiniteSolution")
              <=> Cardinality(AllElements(reagents, products))
                      < Len(reagents) + Len(products) - 1
        /\ result = Err("InfiniteSolution") =>
              /\ \E order \in Orders(ElementList(reagents)) :
                    matrix = LinearEquation(reagents, products, order)
              /\ other_row = 0 /\ solutions = << >>

\* [A2, A2] = [A2]: one element, three formulas.
C10_Witness ==
    /\ result = Err("InfiniteSolution")
    /\ Len(reagents) = 2 /\ Len(products) = 1
    /\ Cardinality(AllElements(reagents, products)) = 1
    /\ Len(matrix) = 3

\* Some reagent holds an element symbol that occurs in no product.
ReagentElementMissing(rs, ps) ==
    \E i \in 1..Len(rs) : \E e \in DOMAIN rs[i] :
        \A j \in 1..Len(ps) : e \notin DOMAIN ps[j]

\* C11: an input in which some reagent holds an element that no product
\* holds never gets a coefficient vector: the call does not return Ok.
C11_ReagentOnlyElementNeverOk ==
    ReagentElementMissing(reagents, products) => result.tag # "Ok"

\* The row and the column of the cell matrix[i + 1] (i the 0-based index).
RowOf(i, cols) == (i - 1) \div cols
ColumnOf(i, cols) == (i - 1) % cols

\* vec2 is vec with the rows r1 and r2 exchanged.
RowsExchanged(vec, vec2, cols, r1, r2) ==
    /\ Len(vec2) = Len(vec)
    /\ \A i \in 1..Len(vec) :
          vec2[i] = At(vec, cols,
                       IF RowOf(i, cols) = r1 THEN r2
                       ELSE IF RowOf(i, cols) = r2 THEN r1
                       ELSE RowOf(i, cols),
                       ColumnOf(i, cols))

\* C16: a cancel step for the pivot `row` and the row `other_row` below it
\* changes no cell but those of row other_row in the columns from `row` on;
\* apart from the cancel steps the matrix changes only by the exchange of the
\* pivot row with a row below it.
C16_CancelWritesOnlyItsRow ==
    [][/\ pc = "cancel" =>
            /\ Len(matrix') = Len(matrix)
            /\ \A i \in 1..Len(matrix) :
                  (RowOf(i, columns) # other_row \/ ColumnOf(i, columns) < row)
                      => matrix'[i] = matrix[i]
       /\ (pc \notin {"create", "cancel"} /\ matrix' # matrix) =>
            /\ pc = "pivot"
            /\ \E o \in (row + 1)..(Len(matrix) \div columns - 1) :
                  RowsExchanged(matrix, matrix', columns, row, o)
      ]_vars

\* The cancel step for the second pivot on the third row has run and has
\* written a number that no formula holds.
C16_Witness ==
    /\ pc = "cancel" /\ row = 1 /\ other_row = 3
    /\ At(matrix, columns, 2, 1) = 0
    /\ Abs(At(matrix, columns, 2, 2)) > MaxCount
    /\ At(matrix, columns, 2, 0) = 0

\* The rows of a row-major matrix, each a sequence of its entries.
RowsOf(vec, cols) ==
    [r \in 1..(Len(vec) \div cols) |-> [c \in 1..cols |-> At(vec, cols, r - 1, c - 1)]]

RECURSIVE Ascending(_)
\* The numbers of the set S, smallest first.
Ascending(S) ==
    IF S = {} THEN << >>
    ELSE LET x == CHOOSE y \in S : \A z \in S : y <= z
         IN  <<x>> \o Ascending(S \ {x})

RECURSIVE Minor(_, _, _)
\* The determinant of the rows rws and the columns cs of m (sequences of
\* indices of equal length), expanded along the first of the rows.
Minor(m, rws, cs) ==
    IF Len(rws) = 0 THEN 1
    ELSE SumTo([j \in 0..(Len(cs) - 1) |->
                   (IF j % 2 = 0 THEN 1 ELSE 0 - 1)
                   * m[rws[1]][cs[j + 1]]
                   * Minor(m, Without(rws, 1), Without(cs, j + 1))],
               Len(cs))

\* m (a non-empty sequence of rows of `cols` entries) has a non-zero minor
\* of size k.
HasMinor(m, cols, k) ==
    \E R \in SUBSET (1..Len(m)) : \E C \in SUBSET (1..cols) :
        /\ Cardinality(R) = k /\ Cardinality(C) = k
        /\ Minor(m, Ascending(R), Ascending(C)) # 0

RECURSIVE LargestMinor(_, _, _)
\* The size of the largest non-zero minor of m among the sizes up to k.
LargestMinor(m, cols, k) ==
    IF k = 0 \/ HasMinor(m, cols, k) THEN k ELSE LargestMinor(m, cols, k - 1)

\* The rank of m: the size of its largest non-zero minor.
Rank(m, cols) == LargestMinor(m, cols, IF Len(m) < cols THEN Len(m) ELSE cols)

\* The matrices vec and vec2 have the same solutions x of M * x = 0: their
\* rows span the same space, that is, neither matrix adds to the rank of the
\* other.
SameNullSpace(vec, vec2, cols) ==
    LET m == RowsOf(vec, cols)
        m2 == RowsOf(vec2, cols)
    IN  /\ Rank(m, cols) = Rank(m2, cols)
        /\ Rank(m \o m2, cols) = Rank(m, cols)

\* C17: when the elimination step of a pivot is complete, every row below
\* the pivot row holds 0 in the pivot column and in the columns left of it;
\* the divisions of the step leave no remainder; and the step keeps the set
\* of solutions x of M * x = 0.
C17_EliminationStepIsSound ==
    [][/\ (pc = "cancel" /\ other_row = Len(matrix) \div columns) =>
            \A j \in (row + 1)..(Len(matrix) \div columns - 1) : \A c \in 0..row :
                At(matrix, columns, j, c) = 0
       /\ (pc = "cancel" /\ other_row < Len(matrix) \div columns
              /\ At(matrix, columns, other_row, row) # 0) =>
            /\ pc' # "done"
            /\ LET p == At(matrix, columns, row, row)
                   q == At(matrix, columns, other_row, row)
               IN  /\ lcm(Abs(p), Abs(q)) % Abs(p) = 0
                   /\ lcm(Abs(p), Abs(q)) % Abs(q) = 0
       /\ (pc \in {"pivot", "cancel"} /\ matrix' # matrix) =>
            SameNullSpace(matrix, matrix', columns)
      ]_vars

\* The step of the first pivot is complete on a matrix of three rows: both
\* rows below start with 0, and the second row was scaled while cancelled.
C17_Witness ==
    /\ pc = "cancel" /\ row = 0 /\ other_row = 3
    /\ Len(matrix) = 3 * columns
    /\ At(matrix, columns, 1, 0) = 0 /\ At(matrix, columns, 2, 0) = 0
    /\ \E c \in 1..(columns - 1) : Abs(At(matrix, columns, 1, c)) > MaxCount

\* The value the back-substitution holds for column c: solutions[n] is the
\* value of column columns - 1 - n.
SolvedValue(c) == solutions[columns - c]

\* C18: during the back-substitution the solved values are those of the
\* last columns, solutions[n] that of column columns - 1 - n, and every row i
\* processed so far satisfies
\* |M[i][i]| * x[i] = |sum of M[i][c] * x[c] over the columns c > i|.
C18_BackSubstitutionKeepsRowEquations ==
    pc \in {"back", "reverse"} =>
        /\ Len(solutions) = IF pc = "back" THEN columns - 1 - row ELSE columns
        /\ \A i \in (columns - Len(solutions))..(columns - 2) :
              Abs(At(matrix, columns, i, i)) * SolvedValue(i)
                = Abs(SumTo([n \in 0..(columns - i - 2) |->
                                At(matrix, columns, i, i + 1 + n) * SolvedValue(i + 1 + n)],
                            columns - i - 1))

\* Both rows of a system of three columns are processed, and the value of
\* the last column was rescaled.
C18_Witness ==
    /\ pc = "reverse" /\ columns = 3
    /\ Len(solutions) = 3
    /\ solutions[1] > 1

\* ------------------------------------------- parser: reference semantics

\* '(' minus ')' among the first i characters of s.
Depth(s, i) ==
    Cardinality({k \in 1..i : s[k] = "("}) - Cardinality({k \in 1..i : s[k] = ")"})

\* Some ')' of s closes no open group.
HasUnmatchedClose(s) == \E i \in 1..Len(s) : Depth(s, i) < 0

\* The position of the ')' that closes the '(' at position o; Len(s) + 1 when
\* the group is never closed (it then reaches to the end and has no
\* multiplier).
MatchClose(s, o) ==
    CHOOSE c \in (o + 1)..(Len(s) + 1) :
        /\ c <= Len(s) => Depth(s, c) = Depth(s, o) - 1
        /\ \A k \in (o + 1)..(c - 1) : Depth(s, k) >= Depth(s, o)

\* The last position of the element token that starts at the uppercase
\* letter at position p.
NameEnd(s, p) ==
    CHOOSE q \in p..Len(s) :
        /\ \A k \in (p + 1)..q : s[k] \in Lower
        /\ (q = Len(s) \/ s[q + 1] \notin Lower)

NameAt(s, p) == SubSeq(s, p, NameEnd(s, p))

\* The last position of the run of digits that starts after position q
\* (q itself when no digit follows).
DigitsEnd(s, q) ==
    CHOOSE e \in q..Len(s) :
        /\ \A k \in (q + 1)..e : s[k] \in Digit
        /\ (e = Len(s) \/ s[e + 1] \notin Digit)

RECURSIVE DecimalValue(_, _, _)
\* The decimal number written in s[a..b].
DecimalValue(s, a, b) ==
    IF a > b THEN 0 ELSE DecimalValue(s, a, b - 1) * 10 + DigitValue(s[b])

\* The count written after position q, 1 when none is written.
NumberAfter(s, q) ==
    IF q >= Len(s) \/ DigitsEnd(s, q) = q
    THEN 1
    ELSE DecimalValue(s, q + 1, DigitsEnd(s, q))

\* The '(' of the groups that enclose position p.
Enclosing(s, p) ==
    {o \in 1..(p - 1) : s[o] = "(" /\ MatchClose(s, o) > p}

RECURSIVE Product(_, _)
Product(f, S) ==
    IF S = {} THEN 1
    ELSE LET x == CHOOSE y \in S : TRUE IN f[x] * Product(f, S \ {x})

RECURSIVE Sum(_, _)
Sum(f, S) ==
    IF S = {} THEN 0
    ELSE LET x == CHOOSE y \in S : TRUE IN f[x] + Sum(f, S \ {x})

\* What the element occurrence at position p contributes: its own count
\* times the multiplier of every group around it.
Contribution(s, p) ==
    NumberAfter(s, NameEnd(s, p))
    * Product([o \in Enclosing(s, p) |-> NumberAfter(s, MatchClose(s, o))],
              Enclosing(s, p))

UpperPositions(s) == {p \in 1..Len(s) : s[p] \in Upper}

\* The reference evaluation of a formula with balanced parentheses.
RefParts(s) ==
    [n \in {NameAt(s, p) : p \in UpperPositions(s)} |->
        Sum([p \in UpperPositions(s) |-> Contribution(s, p)],
            {p \in UpperPositions(s) : NameAt(s, p) = n})]

\* The grammar of section 4.1, character by character: what may follow what.
\* prev is "" at the start of the string.
OkAfter(prev, c) ==
    CASE c \in Upper -> TRUE
      [] c \in Lower -> prev \in Upper \cup Lower
      [] c \in NonZeroDigit -> prev \in Upper \cup Lower \cup Digit \cup {")"}
      [] c = "0" -> prev \in Digit
      [] c = "(" -> TRUE
      [] c = ")" -> prev \in Upper \cup Lower \cup Digit \cup {")"}
      [] OTHER -> FALSE

\* s is a formula of the grammar: terms in sequence, groups non-empty and
\* closed.
InGrammar(s) ==
    /\ \A i \in 1..Len(s) :
          /\ OkAfter(IF i = 1 THEN "" ELSE s[i - 1], s[i])
          /\ Depth(s, i) >= 0
    /\ Depth(s, Len(s)) = 0

RECURSIVE Closers(_)
Closers(n) == IF n <= 0 THEN << >> ELSE <<")">> \o Closers(n - 1)

\* s continued to a whole formula in the shortest way: an element where a
\* term is due, then every open group closed.
Completion(s) ==
    (IF s # << >> /\ s[Len(s)] = "(" THEN Append(s, "A") ELSE s)
        \o Closers(Depth(s, Len(s)))

\* --------------------------------------------------------- parser: claims

\* C3: a ')' with no matching open group makes parse_chemical return None;
\* the call never panics on the empty scope stack.
C3_UnmatchedCloseIsNone ==
    (ret # Running /\ HasUnmatchedClose(input)) => ret = RetNone

\* C4: a returned Some carries the reference evaluation of the string: each
\* element occurrence counts its own count times the multipliers of the
\* groups around it, equal symbols summed.
C4_PartsAreReference ==
    ret.tag = "Some" => ret.parts = RefParts(input)

\* The same for the strings whose groups are all closed.
C4_BalancedPartsAreReference ==
    (ret.tag = "Some" /\ Depth(input, Len(input)) = 0) => ret.parts = RefParts(input)

\* "A(A2)2Aa": a symbol counted inside and outside a multiplied group.
C4_Witness ==
    /\ ret.tag = "Some"
    /\ input = <<"A", "(", "A", "2", ")", "2", "A", "a">>
    /\ ret.parts = (<<"A">> :> 5) @@ (<<"A", "a">> :> 1)

\* C5: the parser accepts every formula of the grammar: it returns None
\* neither at the end of a formula of the grammar nor at a character after
\* which the string can still be completed to one.
C5_AcceptsGrammar ==
    [][(ret = Running /\ ret' \in {RetNone, RetPanic}) =>
          IF input' = input
          THEN ~InGrammar(input)
          ELSE ~InGrammar(Completion(input'))]_vars

\* C12: every count a returned Some carries is at least 1, on every target
\* and in every build: no element is stored with the count zero.
C12_CountsArePositive ==
    ret.tag = "Some" => \A n \in DOMAIN ret.parts : ret.parts[n] >= 1

\* More '(' than ')' among the characters of s: a group is still open.
GroupOpen(s) == Depth(s, Len(s)) > 0

\* C13: when the end of the input is reached while a group is still open,
\* parse_chemical returns None.
C13_OpenGroupAtEndIsNone ==
    [][(ret = Running /\ input' = input /\ GroupOpen(input)) => ret' = RetNone]_vars

\* C15: a returned Some(c) carries the input unchanged in c.display, and
\* parsing c.display again succeeds with the same parts.
C15_DisplayIsInputAndReparses ==
    ret.tag = "Some" =>
        /\ ret.display = input
        /\ LET c2 == parse_chemical(ret.display)
           IN  c2.tag = "Some" /\ c2.parts = ret.parts

\* "A(B2)2" was parsed: A once, B four times.
C15_Witness ==
    /\ ret.tag = "Some"
    /\ ret.display = <<"A", "(", "B", "2", ")", "2">>
    /\ ret.parts = (<<"A">> :> 1) @@ (<<"B">> :> 4)

\* The '(' among the characters of s.
Opens(s) == Cardinality({i \in 1..Len(s) : s[i] = "("})

\* The groups of s that were merged back: those closed by a ')' whose
\* multiplier, if any, is followed by a further character.
MergedGroups(s) ==
    Cardinality({i \in 1..Len(s) : s[i] = ")" /\ DigitsEnd(s, i) < Len(s)})

\* C20: while the parser scans, the scope stack is empty in the states None,
\* ShallowLetter and ShallowDigit, non-empty in the states DeepNone,
\* DeepLetter and DeepDigit, and as deep as the number of '(' read minus the
\* number of groups merged back.
C20_StackMatchesState ==
    ret = Running =>
        /\ state \in {"None", "ShallowLetter", "ShallowDigit"} => parts_stack = << >>
        /\ state \in {"DeepNone", "DeepLetter", "DeepDigit"} => parts_stack # << >>
        /\ Len(parts_stack) = Opens(input) - MergedGroups(input)

\* "(A)(A(" was read: three groups opened, one merged back, two open.
C20_Witness ==
    /\ ret = Running
    /\ input = <<"(", "A", ")", "(", "A", "(">>
    /\ state = "DeepNone"
    /\ Len(parts_stack) = 2

\* ------------------------------------------------ equation reader: claims

\* C14: an equation string without '=' gets the missing-separator error,
\* whatever stands in it.
C14_NoSeparatorIsReported ==
    (eq_side = "done" /\ Find(equation, "=") = 0) => eq_result = MissingSeparator

\* ------------------------------------------------------------ lcm: claims

Divides(d, n) == n % d = 0

\* g is the greatest common divisor of a and b (a, b > 0).
IsGcd(g, a, b) ==
    /\ g >= 1 /\ Divides(g, a) /\ Divides(g, b)
    /\ \A e \in (g + 1)..a : ~(Divides(e, a) /\ Divides(e, b))

\* m is the least common multiple of a and b (a, b > 0).
IsLcm(m, a, b) ==
    /\ m >= 1 /\ Divides(a, m) /\ Divides(b, m)
    /\ \A k \in 1..(m - 1) : ~(Divides(a, k) /\ Divides(b, k))

\* lcm has returned from a call with strictly positive arguments.
LcmReturned == lcm_pc = "done" /\ lcm_a > 0 /\ lcm_b > 0

\* C19: for strictly positive i64 arguments a and b the gcd loop ends with
\* the greatest common divisor, and lcm returns a * b / gcd(a, b), the least
\* common multiple of a and b.
C19_LcmIsLeastCommonMultiple ==
    /\ <>(lcm_pc = "done")
    /\ [](LcmReturned =>
            /\ IsGcd(gcd_result, lcm_a, lcm_b)
            /\ lcm_result.tag = "Ok"
            /\ lcm_result.v * gcd_result = lcm_a * lcm_b
            /\ IsLcm(lcm_result.v, lcm_a, lcm_b))

\* The gcd half of C19 alone: the loop ends, with the greatest common divisor.
GcdLoopEndsWithGcd ==
    /\ <>(lcm_pc = "done")
    /\ [](LcmReturned => IsGcd(gcd_result, lcm_a, lcm_b))

\* The lcm half for the arguments whose product is an i64.
LcmIsLeastWhenProductFits ==
    (LcmReturned /\ FitsI64(lcm_a * lcm_b)) =>
        lcm_result.tag = "Ok" /\ IsLcm(lcm_result.v, lcm_a, lcm_b)

\* ------------------------------------------------------- the page: claims

\* Balancing the text fails with a returned error: parse_equation returns
\* Err, or calculate_coefficients does.
BalanceFails(text) ==
    LET parsed == parse_equation(text)
    IN  \/ parsed.tag = "Err"
        \/ /\ parsed.tag = "Ok"
           /\ \E o \in RowOrders(parsed) : Coefficients(parsed, o).tag = "Err"

\* Balancing the text can succeed: both calls return Ok.
BalanceSucceeds(text) ==
    LET parsed == parse_equation(text)
    IN  /\ parsed.tag = "Ok"
        /\ \E o \in RowOrders(parsed) : Coefficients(parsed, o).tag = "Ok"

\* The step is a call of update with Msg::Balance that returned.
BalanceReturned == msg'.tag = "Balance" /\ update_ret' = "returned"

\* Whether a text fails does not depend on the order of the rows.
FailureIsOrderIndependent ==
    \A text \in Inputs : ~(BalanceFails(text) /\ BalanceSucceeds(text))

\* C21: a Balance whose equation fails to parse or to solve with a returned
\* error sets model.error to Some and leaves model.result, model.history and
\* model.input as they were; only a successful Balance sets model.result, and
\* it leaves model.error None.
C21_FailedBalanceOnlySetsError ==
    [][ /\ BalanceReturned =>
            IF BalanceFails(model_input)
            THEN /\ model_error'.tag = "Some"
                 /\ model_result' = model_result
                 /\ model_history' = model_history
                 /\ model_input' = model_input
            ELSE /\ BalanceSucceeds(model_input)
                 /\ model_result'.tag = "Some"
                 /\ model_error' = None
        /\ (model_result' # model_result /\ model_result'.tag = "Some") =>
                BalanceReturned /\ BalanceSucceeds(model_input)
      ]_vars

\* A Balance that failed to solve, after an earlier one that succeeded: there
\* was a result, an entry of the history and a text to leave unchanged.
C21_Witness ==
    /\ msg.tag = "Balance"
    /\ model_error = Some(ReactionMessage("UnbalancedElements"))
    /\ model_result.tag = "Some"
    /\ model_history # << >>
    /\ model_input # << >>

\* C22: model.history is append-only over every sequence of messages: no
\* message removes or changes an entry, a successful Balance adds exactly one
\* entry and clears model.input, every other message adds none.
C22_HistoryIsAppendOnly ==
    [][ IF BalanceReturned /\ BalanceSucceeds(model_input)
        THEN /\ Len(model_history') = Len(model_history) + 1
             /\ SubSeq(model_history', 1, Len(model_history)) = model_history
             /\ model_input' = << >>
        ELSE model_history' = model_history
      ]_vars

\* A second successful Balance has added its entry after a different first
\* one, and cleared the input.
C22_Witness ==
    /\ msg.tag = "Balance"
    /\ Len(model_history) = 2
    /\ model_history[1] # model_history[2]
    /\ model_input = << >>
    /\ model_error = None

====
